---- MODULE Spec2Model ----
(***************************************************************************)
(* State-machine model of procrastinate's InMemoryConnector               *)
(* (src/procrastinate/testing.py): the job table, the per-job event logs, *)
(* the id counter and the wake signal, with one action per store          *)
(* operation.  Optional values are modelled as sets of at most one        *)
(* element: None is {} and a present value x is {x}, so that None is an   *)
(* ordinary value that can be compared and collected into sets, as in     *)
(* Python.                                                                *)
(***************************************************************************)
EXTENDS Integers, Sequences, FiniteSets, TLC

VARIABLES jobs, events, job_counter, queries, notify_event, notify_channels, now,
          lastOp

vars == <<jobs, events, job_counter, queries, notify_event, notify_channels, now,
          lastOp>>

\* ---- bounds -----------------------------------------------------------
MaxJobs == 2        \* ids the counter may hand out
MaxHistory == 4     \* events recorded, over all logs, plus hours elapsed
MaxQueries == 3     \* calls made through the gateway

SecondsPerHour == 3600

\* ---- values -----------------------------------------------------------
None == {}
Some(x) == {x}

Statuses == {"todo", "doing", "succeeded", "failed"}
FinishStatuses == {"succeeded", "failed", "todo"}
Queues == {"q1", "q2"}
Tasks == {"t1"}
Locks == {None, Some("x")}
QueueingLocks == {None, Some("k")}
QueueFilters == {None, Some({"q1"})}
AnyQueueChannel == "procrastinate_any_queue"
Q1Channel == "procrastinate_queue#q1"
ChannelSets == {{AnyQueueChannel}, {Q1Channel}}
StatusSets == {{"succeeded"}, {"succeeded", "failed"}}

\* ---- helpers ----------------------------------------------------------
Last(s) == s[Len(s)]
MaxOf(S) == CHOOSE m \in S : \A x \in S : x <= m
MinOf(S) == CHOOSE m \in S : \A x \in S : m <= x
Range(s) == {s[i] : i \in 1..Len(s)}

RECURSIVE TotalLen(_, _)
TotalLen(evs, ids) ==
    IF ids = {} THEN 0
    ELSE LET i == MinOf(ids) IN Len(evs[i]) + TotalLen(evs, ids \ {i})

\* room left for n more events or hours
Room(n) == TotalLen(events, DOMAIN events) + (now \div SecondsPerHour) + n <= MaxHistory

ScheduleTimes == {None, Some(now + SecondsPerHour)}

QueueChannel(queue) == IF queue = "q1" THEN Q1Channel ELSE "procrastinate_queue#q2"

Call(op, arg, ret, raised) == [op |-> op, arg |-> arg, ret |-> ret, raised |-> raised]

\* ---- reset / __init__ --------------------------------------------------
Init ==
    /\ jobs = <<>>
    /\ events = <<>>
    /\ job_counter = 1
    /\ queries = <<>>
    /\ notify_event = None
    /\ notify_channels = {}
    /\ now = 0
    /\ lastOp = Call("init", <<>>, {}, "")

\* ---- listen_notify ------------------------------------------------------
listen_notify ==
    \E channels \in ChannelSets :
        /\ notify_event' = Some(FALSE)
        /\ notify_channels' = channels
        /\ lastOp' = Call("listen_notify", [channels |-> channels], {}, "")
        /\ UNCHANGED <<jobs, events, job_counter, queries, now>>

\* ---- defer_job_one ------------------------------------------------------
\* variant: the test looks at unresolved jobs only
QueueingLockTakenUnresolved(js, queueing_lock) ==
    \E i \in DOMAIN js : /\ js[i].status \in {"todo", "doing"}
                         /\ js[i].queueing_lock = queueing_lock

\* the any(...) test of defer_job_one: Python's == makes None equal to None
QueueingLockTaken(js, queueing_lock) ==
    \E i \in DOMAIN js : js[i].queueing_lock = queueing_lock

NewJobRow(id, task_name, lock, queueing_lock, args, scheduled_at, queue) ==
    [id |-> id, queue_name |-> queue, task_name |-> task_name, lock |-> lock,
     queueing_lock |-> queueing_lock, args |-> args, status |-> "todo",
     scheduled_at |-> scheduled_at, attempts |-> 0]

NewJobEvents(scheduled_at, t) ==
    (IF scheduled_at # None
        THEN <<[type |-> "scheduled", at |-> MaxOf(scheduled_at)]>>
        ELSE <<>>)
    \o <<[type |-> "deferred", at |-> t]>>

\* variant: every submission sets a registered event
NotifiedOnAnyQueue(ev, channels, queue) ==
    IF ev # None THEN Some(TRUE) ELSE ev

Notified(ev, channels, queue) ==
    IF ev # None /\ (AnyQueueChannel \in channels \/ QueueChannel(queue) \in channels)
        THEN Some(TRUE)
        ELSE ev

\* variant: the id is derived from the size of the table
NextIdByCount(js, counter) == Cardinality(DOMAIN js) + 1

\* id = next(self.job_counter)
NextId(js, counter) == counter

\* variant: the id is drawn before the uniqueness test
CounterAlwaysAdvanced(counter, rejected) == counter + 1

\* the counter advances only when the call gets past the uniqueness test
CounterAfterDefer(counter, rejected) == IF rejected THEN counter ELSE counter + 1

DeferJob(task_name, lock, queueing_lock, args, scheduled_at, queue) ==
    LET arg == [queueing_lock |-> queueing_lock]
        rejected == QueueingLockTaken(jobs, queueing_lock)
        id == NextId(jobs, job_counter)
    IN  /\ job_counter' = CounterAfterDefer(job_counter, rejected)
        /\ IF rejected
           THEN /\ lastOp' = Call("defer_job_one", arg, {}, "UniqueViolation")
                /\ UNCHANGED <<jobs, events, notify_event>>
           ELSE /\ jobs' = (id :> NewJobRow(id, task_name, lock, queueing_lock,
                                            args, scheduled_at, queue)) @@ jobs
                /\ events' = (id :> NewJobEvents(scheduled_at, now)) @@ events
                /\ notify_event' = Notified(notify_event, notify_channels, queue)
                /\ lastOp' = Call("defer_job_one", arg, {id}, "")
        /\ UNCHANGED <<notify_channels, now>>

defer_job_one ==
    \E task_name \in Tasks, lock \in Locks, queueing_lock \in QueueingLocks,
       scheduled_at \in ScheduleTimes, queue \in Queues :
        /\ \/ QueueingLockTaken(jobs, queueing_lock)
           \/ job_counter <= MaxJobs /\ Room(Len(NewJobEvents(scheduled_at, now)))
        /\ DeferJob(task_name, lock, queueing_lock, "a", scheduled_at, queue)
        /\ UNCHANGED queries

\* submissions without a lock, over two task names
TaskNames == {"t1", "t2"}

defer_job_unlocked ==
    \E task_name \in TaskNames, queueing_lock \in QueueingLocks,
       scheduled_at \in ScheduleTimes, queue \in Queues :
        /\ \/ QueueingLockTaken(jobs, queueing_lock)
           \/ job_counter <= MaxJobs /\ Room(Len(NewJobEvents(scheduled_at, now)))
        /\ DeferJob(task_name, None, queueing_lock, "a", scheduled_at, queue)
        /\ UNCHANGED queries

\* ---- current_locks ------------------------------------------------------
\* variant: collects the wrong field of the running jobs
current_locks_queueing(js) ==
    {js[i].queueing_lock : i \in {j \in DOMAIN js : js[j].status = "doing"}}

\* variant: a job keeps its lock once it has been started
current_locks_kept(js) ==
    {js[i].lock : i \in {j \in DOMAIN js : js[j].status # "todo"}}

current_locks(js) == {js[i].lock : i \in {j \in DOMAIN js : js[j].status = "doing"}}

\* ---- fetch_job_one ------------------------------------------------------
\* variant: the schedule test is missing
EligibleUnscheduled(js, job, queues, t) ==
    /\ job.status = "todo"
    /\ (queues = None \/ \E qs \in queues : job.queue_name \in qs)
    /\ job.lock \notin current_locks(js)

\* variant: the status test is missing
EligibleAnyStatus(js, job, queues, t) ==
    /\ (queues = None \/ \E qs \in queues : job.queue_name \in qs)
    /\ (job.scheduled_at = None \/ \A s \in job.scheduled_at : s <= t)
    /\ job.lock \notin current_locks(js)

Eligible(js, job, queues, t) ==
    /\ job.status = "todo"
    /\ (queues = None \/ \E qs \in queues : job.queue_name \in qs)
    /\ (job.scheduled_at = None \/ \A s \in job.scheduled_at : s <= t)
    /\ job.lock \notin current_locks(js)

\* variant: the scan runs from the newest job
LastMatch(ids) == MaxOf(ids)

\* the dict iterates in insertion order, which is ascending id
FirstMatch(ids) == MinOf(ids)

FetchJob(queues) ==
    LET matches == {i \in DOMAIN jobs : Eligible(jobs, jobs[i], queues, now)}
    IN  IF matches = {}
        THEN /\ lastOp' = Call("fetch_job_one", [queues |-> queues], {}, "")
             /\ UNCHANGED <<jobs, events, job_counter, notify_event,
                            notify_channels, now>>
        ELSE LET id == FirstMatch(matches)
             IN  /\ jobs' = [jobs EXCEPT ![id].status = "doing"]
                 /\ events' = [events EXCEPT
                                 ![id] = Append(@, [type |-> "started", at |-> now])]
                 /\ lastOp' = Call("fetch_job_one", [queues |-> queues], {id}, "")
                 /\ UNCHANGED <<job_counter, notify_event, notify_channels, now>>

fetch_job_one ==
    \E queues \in QueueFilters :
        /\ FetchJob(queues)
        /\ UNCHANGED queries
        /\ lastOp'.ret = {} \/ Room(1)

\* ---- finish_job_run -----------------------------------------------------
\* variant: attempts is incremented whatever the target status
FinishedRowAlwaysCounting(job_row, status, scheduled_at) ==
    IF status = "todo"
        THEN [job_row EXCEPT !.status = status,
                             !.attempts = @ + 1,
                             !.scheduled_at = scheduled_at]
        ELSE [job_row EXCEPT !.status = status, !.attempts = @ + 1]

FinishedRow(job_row, status, scheduled_at) ==
    IF status = "todo"
        THEN [job_row EXCEPT !.status = status,
                             !.attempts = @ + 1,
                             !.scheduled_at = scheduled_at]
        ELSE [job_row EXCEPT !.status = status]

\* variant: a retry never logs its new schedule time
FinishEventsUnscheduled(status, scheduled_at, t) ==
    IF status = "todo"
        THEN <<[type |-> "deferred_for_retry", at |-> t]>>
        ELSE <<[type |-> status, at |-> t]>>

FinishEvents(status, scheduled_at, t) ==
    IF status = "todo"
        THEN (IF scheduled_at # None
                 THEN <<[type |-> "scheduled", at |-> MaxOf(scheduled_at)]>>
                 ELSE <<>>)
             \o <<[type |-> "deferred_for_retry", at |-> t]>>
        ELSE <<[type |-> status, at |-> t]>>

FinishJob(job_id, status, scheduled_at) ==
    LET arg == [job_id |-> job_id, status |-> status]
    IN  IF job_id \notin DOMAIN jobs
        THEN /\ lastOp' = Call("finish_job_run", [job_id |-> job_id], {}, "KeyError")
             /\ UNCHANGED <<jobs, events, job_counter, notify_event,
                            notify_channels, now>>
        ELSE /\ jobs' = [jobs EXCEPT
                           ![job_id] = FinishedRow(@, status, scheduled_at)]
             /\ events' = [events EXCEPT
                             ![job_id] = @ \o FinishEvents(status, scheduled_at, now)]
             /\ lastOp' = Call("finish_job_run", arg, {}, "")
             /\ UNCHANGED <<job_counter, notify_event, notify_channels, now>>

finish_job_run ==
    \E job_id \in 1..MaxJobs, status \in FinishStatuses,
       scheduled_at \in ScheduleTimes :
        /\ \/ job_id \notin DOMAIN jobs
           \/ Room(Len(FinishEvents(status, scheduled_at, now)))
        /\ FinishJob(job_id, status, scheduled_at)
        /\ UNCHANGED queries

\* ---- select_stalled_jobs_all -------------------------------------------
\* variant: the age is taken from the first event of the log
StalledSinceFirstEvent(js, evs, nb_seconds, queue, task_name, t) ==
    {i \in DOMAIN js :
        /\ js[i].status = "doing"
        /\ evs[i][1].at < t - nb_seconds
        /\ queue \in {Some(js[i].queue_name), None}
        /\ task_name \in {Some(js[i].task_name), None}}

Stalled(js, evs, nb_seconds, queue, task_name, t) ==
    {i \in DOMAIN js :
        /\ js[i].status = "doing"
        /\ Last(evs[i]).at < t - nb_seconds
        /\ queue \in {Some(js[i].queue_name), None}
        /\ task_name \in {Some(js[i].task_name), None}}

SelectStalledJobs(nb_seconds, queue, task_name) ==
    /\ lastOp' = Call("select_stalled_jobs_all",
                      [nb_seconds |-> nb_seconds, queue |-> queue,
                       task_name |-> task_name],
                      Stalled(jobs, events, nb_seconds, queue, task_name, now), "")
    /\ UNCHANGED <<jobs, events, job_counter, notify_event, notify_channels, now>>

select_stalled_jobs_all ==
    \E nb_seconds \in {0, SecondsPerHour}, queue \in {None, Some("q1")},
       task_name \in {None} :
        /\ SelectStalledJobs(nb_seconds, queue, task_name)
        /\ UNCHANGED queries

\* the same call with a task filter
select_stalled_jobs_by_task ==
    \E nb_seconds \in {0, SecondsPerHour}, queue \in {None, Some("q1")},
       task_name \in {None, Some("t1")} :
        /\ SelectStalledJobs(nb_seconds, queue, task_name)
        /\ UNCHANGED queries

\* ---- delete_old_jobs_run -----------------------------------------------
\* variant: the age is taken from the last event of the log
OldJobsByLastEvent(js, evs, nb_hours, queue, statuses, t) ==
    {i \in DOMAIN js :
        /\ js[i].status \in statuses
        /\ Last(evs[i]).at < t - nb_hours * SecondsPerHour
        /\ queue \in {Some(js[i].queue_name), None}}

OldJobs(js, evs, nb_hours, queue, statuses, t) ==
    {i \in DOMAIN js :
        /\ js[i].status \in statuses
        /\ MaxOf({e.at : e \in Range(evs[i])}) < t - nb_hours * SecondsPerHour
        /\ queue \in {Some(js[i].queue_name), None}}

\* only self.jobs.pop(id): the entry of self.events is left in place
EventsAfterDelete(evs, deleted) == evs

delete_old_jobs_run ==
    \E nb_hours \in {0, 1}, queue \in {None, Some("q1")}, statuses \in StatusSets :
        LET deleted == OldJobs(jobs, events, nb_hours, queue, statuses, now)
        IN  /\ jobs' = [i \in DOMAIN jobs \ deleted |-> jobs[i]]
            /\ events' = EventsAfterDelete(events, deleted)
            /\ lastOp' = Call("delete_old_jobs_run",
                              [nb_hours |-> nb_hours, queue |-> queue,
                               statuses |-> statuses], deleted, "")
            /\ UNCHANGED <<job_counter, queries, notify_event, notify_channels, now>>

\* ---- list_jobs_all -------------------------------------------------------
\* str() of an optional string: the text of the value, "None" for None
Str(v) == IF v = None THEN "None" ELSE CHOOSE x \in v : TRUE

\* the jobs passing the filters; only the queue_name filter is exercised
ListedJobs(js, queue_name) ==
    {i \in DOMAIN js :
        queue_name = None \/ Str(Some(js[i].queue_name)) = Str(queue_name)}

list_jobs_all ==
    \E queue_name \in {None, Some("q1")} :
        /\ lastOp' = Call("list_jobs_all", [queue_name |-> queue_name],
                          ListedJobs(jobs, queue_name), "")
        /\ UNCHANGED <<jobs, events, job_counter, queries, notify_event,
                       notify_channels, now>>

\* ---- list_queues_all / list_tasks_all -----------------------------------
\* keyword filters: one optional text per column, None when not given
ListFilters ==
    {[queue_name |-> None, task_name |-> None, status |-> None],
     [queue_name |-> Some("q1"), task_name |-> None, status |-> None],
     [queue_name |-> None, task_name |-> Some("t1"), status |-> None],
     [queue_name |-> None, task_name |-> None, status |-> Some("succeeded")]}

JobsMatching(js, kwargs) ==
    {i \in DOMAIN js :
        \A key \in DOMAIN kwargs :
            kwargs[key] = None \/ Str(Some(js[i][key])) = Str(kwargs[key])}

\* the names of the model in ascending order
NameOrder == <<"q1", "q2", "t1", "t2">>

\* sorted(names)
Sorted(names) == SelectSeq(NameOrder, LAMBDA n : n \in names)

\* Counter(job["status"] for job in group)
Counter(js, group) ==
    [st \in {js[i].status : i \in group} |->
        Cardinality({i \in group : js[i].status = st})]

\* variant: the group is taken from the whole table
GroupOfTable(js, listed, key, name) == {i \in DOMAIN js : js[i][key] = name}

Group(js, listed, key, name) == {i \in listed : js[i][key] = name}

Aggregate(js, kwargs, key) ==
    LET listed == JobsMatching(js, kwargs)
        names == Sorted({js[i][key] : i \in listed})
    IN  [k \in 1..Len(names) |->
            LET group == Group(js, listed, key, names[k])
            IN  [name |-> names[k], jobs_count |-> Cardinality(group),
                 stats |-> Counter(js, group)]]

list_queues_all ==
    \E kwargs \in ListFilters :
        /\ lastOp' = Call("list_queues_all", kwargs,
                          Aggregate(jobs, kwargs, "queue_name"), "")
        /\ UNCHANGED <<jobs, events, job_counter, queries, notify_event,
                       notify_channels, now>>

list_tasks_all ==
    \E kwargs \in ListFilters :
        /\ lastOp' = Call("list_tasks_all", kwargs,
                          Aggregate(jobs, kwargs, "task_name"), "")
        /\ UNCHANGED <<jobs, events, job_counter, queries, notify_event,
                       notify_channels, now>>

\* ---- set_job_status_run -------------------------------------------------
set_job_status_run ==
    \E id \in 1..MaxJobs, status \in Statuses :
        LET arg == [id |-> id, status |-> status]
        IN  IF id \notin DOMAIN jobs
            THEN /\ lastOp' = Call("set_job_status_run", [id |-> id], {}, "KeyError")
                 /\ UNCHANGED <<jobs, events, job_counter, queries, notify_event,
                                notify_channels, now>>
            ELSE /\ jobs' = [jobs EXCEPT ![id].status = status]
                 /\ lastOp' = Call("set_job_status_run", arg, {}, "")
                 /\ UNCHANGED <<events, job_counter, queries, notify_event,
                                notify_channels, now>>

\* ---- pendulum.now() -----------------------------------------------------
\* the clock is read in whole hours; an hour passes between two operations
Tick ==
    /\ Room(1)
    /\ now' = now + SecondsPerHour
    /\ lastOp' = Call("tick", <<>>, {}, "")
    /\ UNCHANGED <<jobs, events, job_counter, queries, notify_event, notify_channels>>

\* ---- specifications -----------------------------------------------------
StoreNext ==
    \/ defer_job_one
    \/ fetch_job_one
    \/ finish_job_run
    \/ select_stalled_jobs_all
    \/ delete_old_jobs_run
    \/ list_jobs_all
    \/ Tick

SpecStore == Init /\ [][StoreNext]_vars

\* ---- reset ----------------------------------------------------------------
reset ==
    /\ jobs' = <<>>
    /\ events' = <<>>
    /\ job_counter' = 1
    /\ queries' = <<>>
    /\ notify_event' = None
    /\ notify_channels' = {}
    /\ lastOp' = Call("reset", <<>>, {}, "")
    /\ UNCHANGED now

\* ---- generic_execute ------------------------------------------------------
\* a query stands for its name in sql.queries; "other" is not one of them
QueryNames == {"defer_job", "fetch_job", "finish_job"}

Suffixes == {"one", "run"}

\* the methods <query_name>_<suffix> of the class
Handled(query_name, suffix) ==
    <<query_name, suffix>> \in
        {<<"defer_job", "one">>, <<"fetch_job", "one">>, <<"finish_job", "run">>}

GatewayArguments(query) ==
    CASE query = "defer_job" ->
            {[task_name |-> "t1", lock |-> None, queueing_lock |-> ql,
              args |-> "a", scheduled_at |-> None, queue |-> "q1"] :
                ql \in QueueingLocks}
      [] query = "fetch_job" -> {[queues |-> None]}
      [] query = "finish_job" ->
            {[job_id |-> i, status |-> st, scheduled_at |-> None] :
                i \in 1..MaxJobs, st \in {"succeeded", "todo"}}
      [] OTHER -> {<<>>}

Handler(query_name, arguments) ==
    CASE query_name = "defer_job" ->
            DeferJob(arguments.task_name, arguments.lock, arguments.queueing_lock,
                     arguments.args, arguments.scheduled_at, arguments.queue)
      [] query_name = "fetch_job" -> FetchJob(arguments.queues)
      [] query_name = "finish_job" ->
            FinishJob(arguments.job_id, arguments.status, arguments.scheduled_at)

\* variant: the call is recorded once its handler has returned
RecordedOnReturn(qs, query_name, arguments, raised) ==
    IF raised THEN qs ELSE Append(qs, <<query_name, arguments>>)

\* self.queries.append((query_name, arguments)), before the handler runs
Recorded(qs, query_name, arguments, raised) ==
    Append(qs, <<query_name, arguments>>)

GenericExecute(query, suffix, arguments) ==
    IF query \notin QueryNames
    THEN /\ lastOp' = Call("generic_execute", [query |-> query, suffix |-> suffix],
                           {}, "KeyError")
         /\ UNCHANGED <<jobs, events, job_counter, queries, notify_event,
                        notify_channels, now>>
    ELSE /\ IF Handled(query, suffix)
            THEN Handler(query, arguments)
            ELSE /\ lastOp' = Call("generic_execute",
                                   [query |-> query, suffix |-> suffix],
                                   {}, "AttributeError")
                 /\ UNCHANGED <<jobs, events, job_counter, notify_event,
                                notify_channels, now>>
         /\ queries' = Recorded(queries, query, arguments, lastOp'.raised # "")

generic_execute ==
    \E query \in QueryNames \cup {"other"}, suffix \in Suffixes :
        \E arguments \in GatewayArguments(query) :
            /\ Len(queries) < MaxQueries
            /\ query = "defer_job" => job_counter <= MaxJobs
            /\ GenericExecute(query, suffix, arguments)

GatewayNext ==
    \/ generic_execute
    \/ listen_notify
    \/ reset

SpecGateway == Init /\ [][GatewayNext]_vars

ReaperNext ==
    \/ defer_job_unlocked
    \/ fetch_job_one
    \/ finish_job_run
    \/ select_stalled_jobs_by_task
    \/ Tick

SpecReaper == Init /\ [][ReaperNext]_vars

NotifyNext ==
    \/ listen_notify
    \/ defer_job_one
    \/ finish_job_run
    \/ Tick

SpecNotify == Init /\ [][NotifyNext]_vars

ListingNext ==
    \/ defer_job_unlocked
    \/ fetch_job_one
    \/ finish_job_run
    \/ list_queues_all
    \/ list_tasks_all

SpecListing == Init /\ [][ListingNext]_vars

WorkersNext ==
    \/ defer_job_one
    \/ fetch_job_one
    \/ finish_job_run
    \/ delete_old_jobs_run
    \/ Tick

SpecWorkers == Init /\ [][WorkersNext]_vars

\* workers that fetch from every queue and finish what they fetched as
\* succeeded or failed, submitters, and a clock that runs while a job waits
\* for its schedule time
defer_job_locked ==
    \E lock \in Locks, queueing_lock \in QueueingLocks, scheduled_at \in ScheduleTimes :
        /\ job_counter <= MaxJobs
        /\ DeferJob("t1", lock, queueing_lock, "a", scheduled_at, "q1")
        /\ UNCHANGED queries

fetch_job_any_queue ==
    /\ FetchJob(None)
    /\ UNCHANGED queries

finish_fetched_job(job_id) ==
    \E status \in {"succeeded", "failed"} :
        /\ job_id \in DOMAIN jobs
        /\ jobs[job_id].status = "doing"
        /\ FinishJob(job_id, status, None)
        /\ UNCHANGED queries

finish_fetched_jobs == \E job_id \in 1..MaxJobs : finish_fetched_job(job_id)

TickWhileWaiting ==
    /\ \E i \in DOMAIN jobs :
            /\ jobs[i].status = "todo"
            /\ \E s \in jobs[i].scheduled_at : s > now
    /\ now' = now + SecondsPerHour
    /\ lastOp' = Call("tick", <<>>, {}, "")
    /\ UNCHANGED <<jobs, events, job_counter, queries, notify_event, notify_channels>>

FairNext ==
    \/ defer_job_locked
    \/ fetch_job_any_queue
    \/ finish_fetched_jobs
    \/ TickWhileWaiting

SpecFair ==
    /\ Init
    /\ [][FairNext]_vars
    /\ WF_vars(fetch_job_any_queue)
    /\ \A job_id \in 1..MaxJobs : WF_vars(finish_fetched_job(job_id))
    /\ WF_vars(TickWhileWaiting)

AdminNext ==
    \/ defer_job_one
    \/ fetch_job_one
    \/ finish_job_run
    \/ set_job_status_run
    \/ Tick

SpecAdmin == Init /\ [][AdminNext]_vars

Next ==
    \/ defer_job_one
    \/ fetch_job_one
    \/ finish_job_run
    \/ select_stalled_jobs_all
    \/ delete_old_jobs_run
    \/ list_jobs_all
    \/ set_job_status_run
    \/ listen_notify
    \/ Tick
    \/ list_queues_all
    \/ list_tasks_all
    \/ generic_execute
    \/ reset

Spec == Init /\ [][Next]_vars

\* ---- properties ---------------------------------------------------------
Terminal == {"succeeded", "failed"}
Returned == lastOp.ret
ScheduleElapsed(job, t) == job.scheduled_at = None \/ \A s \in job.scheduled_at : s <= t
QueuePasses(job, queues) == queues = None \/ \E qs \in queues : job.queue_name \in qs

\* C1: no two distinct jobs with the same non-null lock are doing at once.
LockMutualExclusion ==
    \A i \in DOMAIN jobs : \A j \in DOMAIN jobs :
        (i # j /\ jobs[i].lock # None /\ jobs[i].lock = jobs[j].lock)
            => ~(jobs[i].status = "doing" /\ jobs[j].status = "doing")

\* a fetch has just come back empty while a todo job waits behind a running
\* job that holds the same non-null lock
LockHeldWitness ==
    /\ lastOp.op = "fetch_job_one"
    /\ Returned = {}
    /\ \E i \in DOMAIN jobs : \E j \in DOMAIN jobs :
        /\ i # j
        /\ jobs[i].lock # None
        /\ jobs[i].lock = jobs[j].lock
        /\ jobs[i].status = "doing"
        /\ jobs[j].status = "todo"
        /\ ScheduleElapsed(jobs[j], now)
        /\ QueuePasses(jobs[j], lastOp.arg.queues)

\* C2: a submission with a non-null queueing_lock that some job record
\* already carries, whatever that job's status, is rejected with a
\* uniqueness violation and creates nothing; no two job records ever share
\* a non-null queueing_lock.
NoSharedQueueingLock(js) ==
    \A i \in DOMAIN js : \A j \in DOMAIN js :
        (i # j /\ js[i].queueing_lock # None) => js[i].queueing_lock # js[j].queueing_lock

QueueingLockUniqueness ==
    [][/\ (/\ lastOp'.op = "defer_job_one"
           /\ lastOp'.arg.queueing_lock # None
           /\ \E i \in DOMAIN jobs : jobs[i].queueing_lock = lastOp'.arg.queueing_lock)
          => (lastOp'.raised = "UniqueViolation" /\ jobs' = jobs)
       /\ NoSharedQueueingLock(jobs')]_vars

\* a submission has just been rejected because a finished job carries its
\* queueing lock
QueueingLockRejectedWitness ==
    /\ lastOp.op = "defer_job_one"
    /\ lastOp.raised = "UniqueViolation"
    /\ lastOp.arg.queueing_lock # None
    /\ \E i \in DOMAIN jobs : /\ jobs[i].queueing_lock = lastOp.arg.queueing_lock
                              /\ jobs[i].status \in Terminal

\* C3: defer_job_one raises the uniqueness violation only for a non-null
\* queueing_lock carried by an existing job; a submission with a null
\* queueing_lock is never rejected.
NullQueueingLockAccepted ==
    [][lastOp'.op = "defer_job_one" =>
        /\ lastOp'.raised = "UniqueViolation" =>
            (/\ lastOp'.arg.queueing_lock # None
             /\ \E i \in DOMAIN jobs : jobs[i].queueing_lock = lastOp'.arg.queueing_lock)
        /\ lastOp'.arg.queueing_lock = None =>
            (lastOp'.raised = "" /\ DOMAIN jobs' # DOMAIN jobs)]_vars

\* C4: current_locks holds no null entry, and a fetch never passes over a
\* todo job with a null lock that passes the queue filter and whose
\* schedule has elapsed: the call returns that job or an earlier one.
NullLockNeverExcludes ==
    [][/\ None \notin current_locks(jobs')
       /\ lastOp'.op = "fetch_job_one" =>
            \A i \in DOMAIN jobs :
                (/\ jobs[i].status = "todo"
                 /\ jobs[i].lock = None
                 /\ QueuePasses(jobs[i], lastOp'.arg.queues)
                 /\ ScheduleElapsed(jobs[i], now))
                    => \E r \in lastOp'.ret : r <= i]_vars

\* C5: a job returned by fetch_job_one was todo just before the call and its
\* scheduled_at was unset or not later than the current time.
FetchReturnsDueTodo ==
    [][lastOp'.op = "fetch_job_one" =>
        \A r \in lastOp'.ret :
            /\ r \in DOMAIN jobs
            /\ jobs[r].status = "todo"
            /\ ScheduleElapsed(jobs[r], now)]_vars

\* a fetch has just returned a job that was submitted for a later time, at
\* the very instant it became due
FetchDueWitness ==
    /\ lastOp.op = "fetch_job_one"
    /\ \E r \in Returned :
        /\ jobs[r].scheduled_at = Some(now)
        /\ jobs[r].status = "doing"
        /\ events[r][1].type = "scheduled"
        /\ events[r][2].at < now

\* C6: once a job is succeeded or failed, no operation changes its status
\* for as long as it stays in the store.
TerminalAbsorbing ==
    [][\A i \in DOMAIN jobs \cap DOMAIN jobs' :
        jobs[i].status \in Terminal => jobs'[i].status = jobs[i].status]_vars

\* C7: each job's status agrees with the type of the last event of its log.
StatusMatchesLastEvent ==
    \A i \in DOMAIN jobs :
        LET type == Last(events[i]).type
        IN  /\ jobs[i].status = "doing" => type = "started"
            /\ jobs[i].status = "succeeded" => type = "succeeded"
            /\ jobs[i].status = "failed" => type = "failed"
            /\ jobs[i].status = "todo" => type \in {"deferred", "deferred_for_retry"}

\* C8: attempts is 0 on creation and, for a job that stays in the store,
\* grows by exactly 1 in a finish_job_run of that job with target todo and
\* is unchanged by every other step.
AttemptsCountRetries ==
    [][/\ \A i \in DOMAIN jobs' \ DOMAIN jobs : jobs'[i].attempts = 0
       /\ \A i \in DOMAIN jobs \cap DOMAIN jobs' :
            jobs'[i].attempts =
                jobs[i].attempts +
                    (IF /\ lastOp'.op = "finish_job_run"
                        /\ lastOp'.raised = ""
                        /\ lastOp'.arg.job_id = i
                        /\ lastOp'.arg.status = "todo"
                     THEN 1 ELSE 0)]_vars

\* a job has just been sent back for a second attempt while another job,
\* never retried, sits in the store
RetriedWitness ==
    /\ lastOp.op = "finish_job_run"
    /\ lastOp.raised = ""
    /\ lastOp.arg.status = "todo"
    /\ jobs[lastOp.arg.job_id].attempts = 1
    /\ \E j \in DOMAIN jobs : j # lastOp.arg.job_id /\ jobs[j].attempts = 0

\* C9: fetch_job_one returns the smallest id among the jobs that are todo,
\* pass the queue filter, are due and whose lock value no doing job
\* carries (a null lock counts as a value here, as in the comparison the
\* code makes); it marks that job doing and appends one started event;
\* when there is no such job it returns the sentinel and changes nothing.
Qualifying(queues) ==
    {i \in DOMAIN jobs :
        /\ jobs[i].status = "todo"
        /\ QueuePasses(jobs[i], queues)
        /\ ScheduleElapsed(jobs[i], now)
        /\ ~\E j \in DOMAIN jobs : jobs[j].status = "doing" /\ jobs[j].lock = jobs[i].lock}

FetchSelectsFirstQualifying ==
    [][lastOp'.op = "fetch_job_one" =>
        LET q == Qualifying(lastOp'.arg.queues)
        IN  IF q = {}
            THEN lastOp'.ret = {} /\ jobs' = jobs /\ events' = events
            ELSE \E m \in q :
                    /\ \A i \in q : m <= i
                    /\ lastOp'.ret = {m}
                    /\ jobs' = [jobs EXCEPT ![m].status = "doing"]
                    /\ Len(events'[m]) = Len(events[m]) + 1
                    /\ Last(events'[m]).type = "started"
                    /\ \A i \in DOMAIN events :
                        \A k \in 1..Len(events[i]) : events'[i][k] = events[i][k]
                    /\ \A i \in DOMAIN events \ {m} : events'[i] = events[i]]_vars

\* a fetch has just returned a job while a later-created job qualifies too
FetchFirstWitness ==
    /\ lastOp.op = "fetch_job_one"
    /\ \E r \in Returned : \E j \in Qualifying(lastOp.arg.queues) : r < j

\* C10: a job deleted by delete_old_jobs_run leaves no event log behind, so
\* the ids that have an event log are the ids in the job table.
EventLogsFollowJobs ==
    /\ lastOp.op = "delete_old_jobs_run" => Returned \cap DOMAIN events = {}
    /\ DOMAIN events = DOMAIN jobs

\* C11: delete_old_jobs_run removes exactly the jobs whose status is in
\* statuses, all of whose event timestamps are older than now minus nb_hours
\* (the most recent timestamp of the log is) and whose queue passes the
\* filter; every other record stays, unchanged.
RetentionTargets(nb_hours, queue, statuses) ==
    {i \in DOMAIN jobs :
        /\ jobs[i].status \in statuses
        /\ \A k \in 1..Len(events[i]) :
            events[i][k].at + nb_hours * SecondsPerHour < now
        /\ (queue = None \/ queue = Some(jobs[i].queue_name))}

RetentionDeletesExactly ==
    [][lastOp'.op = "delete_old_jobs_run" =>
        LET gone == RetentionTargets(lastOp'.arg.nb_hours, lastOp'.arg.queue,
                                     lastOp'.arg.statuses)
        IN  /\ DOMAIN jobs' = DOMAIN jobs \ gone
            /\ \A i \in DOMAIN jobs' : jobs'[i] = jobs[i]
            /\ (lastOp'.arg.statuses \subseteq Terminal) =>
                    \A i \in DOMAIN jobs :
                        jobs[i].status \in {"todo", "doing"} => i \in DOMAIN jobs']_vars

\* a retention run has just removed an old finished job and kept a job that
\* is still todo or doing
RetentionWitness ==
    /\ lastOp.op = "delete_old_jobs_run"
    /\ Returned # {}
    /\ \E i \in DOMAIN jobs : jobs[i].status \in {"todo", "doing"}

\* C12: select_stalled_jobs_all returns exactly the doing jobs whose last
\* event is strictly older than now minus nb_seconds and which pass the
\* queue and task filters, and changes no job and no event log.
StallQueryExact ==
    [][lastOp'.op = "select_stalled_jobs_all" =>
        /\ lastOp'.ret =
            {i \in DOMAIN jobs :
                /\ jobs[i].status = "doing"
                /\ events[i][Len(events[i])].at + lastOp'.arg.nb_seconds < now
                /\ (lastOp'.arg.queue = None
                        \/ lastOp'.arg.queue = Some(jobs[i].queue_name))
                /\ (lastOp'.arg.task_name = None
                        \/ lastOp'.arg.task_name = Some(jobs[i].task_name))}
        /\ jobs' = jobs
        /\ events' = events]_vars

\* a stall query has just returned a job started an hour ago and left out a
\* job of another task
StallQueryWitness ==
    /\ lastOp.op = "select_stalled_jobs_all"
    /\ lastOp.arg.task_name # None
    /\ \E r \in Returned : \E j \in DOMAIN jobs \ Returned :
        /\ Last(events[r]).type = "started"
        /\ jobs[j].task_name # jobs[r].task_name

\* C13: a successful defer_job_one returns an id greater than every id
\* handed out before; the event logs, which no operation removes, and the
\* job table hold every such id, those of deleted jobs included.
IdsNeverReused ==
    [][(lastOp'.op = "defer_job_one" /\ lastOp'.raised = "") =>
        \E id \in lastOp'.ret :
            /\ lastOp'.ret = {id}
            /\ id \in DOMAIN jobs'
            /\ jobs'[id].id = id
            /\ \A i \in DOMAIN jobs \cup DOMAIN events : i < id]_vars

\* a submission has just been given a fresh id although retention has
\* emptied the table
FreshIdAfterDeleteWitness ==
    /\ lastOp.op = "defer_job_one"
    /\ lastOp.raised = ""
    /\ \E id \in Returned : DOMAIN jobs = {id} /\ id > 1

\* C14: defer_job_one sets the registered event if and only if the
\* submission succeeded, an event has been registered through listen_notify
\* and the subscribed channels hold the wildcard channel or the channel of
\* the job's queue; in every other case the event is as it was, and an event
\* that was already set stays set.
SubscribedTo(queue) ==
    \/ "procrastinate_any_queue" \in notify_channels
    \/ \E q \in Queues : q = queue /\ QueueChannel(q) \in notify_channels

WakeSignalExact ==
    [][lastOp'.op = "defer_job_one" =>
        LET signalled == /\ lastOp'.raised = ""
                         /\ notify_event # None
                         /\ \E id \in lastOp'.ret : SubscribedTo(jobs'[id].queue_name)
        IN  /\ signalled => notify_event' = Some(TRUE)
            /\ ~signalled => notify_event' = notify_event
            /\ notify_channels' = notify_channels]_vars

\* a submission to the subscribed queue has set the event, after an earlier
\* submission to the other queue had left it unset
WakeSignalWitness ==
    /\ lastOp.op = "defer_job_one"
    /\ lastOp.raised = ""
    /\ notify_event = Some(TRUE)
    /\ notify_channels = {Q1Channel}
    /\ \E id \in Returned : \E other \in DOMAIN jobs :
        /\ jobs[id].queue_name = "q1"
        /\ other < id
        /\ jobs[other].queue_name = "q2"

\* C15: list_queues_all (list_tasks_all) yields one entry per queue name
\* (task name) occurring among the jobs that match the filters and no other
\* entry, in ascending name order; jobs_count is the number of matching jobs
\* of that name, stats maps each status to the number of those jobs in that
\* status, and jobs_count is the sum of the stats counts.
NameBefore(a, b) == <<a, b>> \in {<<"q1", "q2">>, <<"t1", "t2">>}

RECURSIVE SumOfCounts(_, _)
SumOfCounts(stats, keys) ==
    IF keys = {} THEN 0
    ELSE LET k == CHOOSE x \in keys : TRUE
         IN  stats[k] + SumOfCounts(stats, keys \ {k})

AggregateExact(out, key, kwargs) ==
    LET matching == {i \in DOMAIN jobs :
                        /\ kwargs.queue_name \in {None, Some(jobs[i].queue_name)}
                        /\ kwargs.task_name \in {None, Some(jobs[i].task_name)}
                        /\ kwargs.status \in {None, Some(jobs[i].status)}}
        named(n) == {i \in matching : jobs[i][key] = n}
    IN  /\ {out[k].name : k \in DOMAIN out} = {jobs[i][key] : i \in matching}
        /\ \A a, b \in DOMAIN out : a < b => NameBefore(out[a].name, out[b].name)
        /\ \A k \in DOMAIN out :
            /\ out[k].jobs_count = Cardinality(named(out[k].name))
            /\ DOMAIN out[k].stats = {jobs[i].status : i \in named(out[k].name)}
            /\ \A st \in DOMAIN out[k].stats :
                out[k].stats[st] =
                    Cardinality({i \in named(out[k].name) : jobs[i].status = st})
            /\ out[k].jobs_count = SumOfCounts(out[k].stats, DOMAIN out[k].stats)

AggregatesExact ==
    [][/\ lastOp'.op = "list_queues_all" =>
            AggregateExact(lastOp'.ret, "queue_name", lastOp'.arg)
       /\ lastOp'.op = "list_tasks_all" =>
            AggregateExact(lastOp'.ret, "task_name", lastOp'.arg)]_vars

\* list_queues_all, filtered on succeeded, has just reported one succeeded
\* job for a queue that also holds a job in another status
AggregateWitness ==
    /\ lastOp.op = "list_queues_all"
    /\ lastOp.arg.status = Some("succeeded")
    /\ Len(Returned) = 1
    /\ Returned[1].jobs_count = 1
    /\ \E i, j \in DOMAIN jobs :
        /\ jobs[i].queue_name = jobs[j].queue_name
        /\ jobs[i].status = "succeeded"
        /\ jobs[j].status = "failed"

\* C16: every call dispatched through generic_execute appends exactly one
\* (operation name, arguments) pair to queries, also when the handler then
\* raises; no operation other than reset reorders or shortens the log.
QueryOf(op) ==
    CASE op = "defer_job_one" -> "defer_job"
      [] op = "fetch_job_one" -> "fetch_job"
      [] op = "finish_job_run" -> "finish_job"
      [] OTHER -> lastOp'.arg.query

Dispatched ==
    \/ lastOp'.op \in {"defer_job_one", "fetch_job_one", "finish_job_run"}
    \/ lastOp'.op = "generic_execute" /\ lastOp'.raised = "AttributeError"

GatewayLogExact ==
    [][/\ Dispatched =>
            /\ Len(queries') = Len(queries) + 1
            /\ queries'[Len(queries')][1] = QueryOf(lastOp'.op)
            /\ lastOp'.op # "generic_execute" =>
                \A k \in DOMAIN lastOp'.arg :
                    queries'[Len(queries')][2][k] = lastOp'.arg[k]
       /\ lastOp'.op # "reset" =>
            /\ Len(queries') >= Len(queries)
            /\ \A k \in 1..Len(queries) : queries'[k] = queries[k]]_vars

\* a submission made through the gateway has just been rejected, and the log
\* holds it after the accepted submission of the same arguments
GatewayLogWitness ==
    /\ lastOp.op = "defer_job_one"
    /\ lastOp.raised = "UniqueViolation"
    /\ Len(queries) = 2
    /\ queries[1] = queries[2]
    /\ queries[2][1] = "defer_job"

\* C17: the event log of a job that stays in the store only grows at its
\* end: defer_job_one creates it as [scheduled (if a time was given),
\* deferred], fetch_job_one appends one started event, finish_job_run
\* appends the terminal event or [scheduled (if a new time was given),
\* deferred_for_retry]; every other log is left as it was.
ScheduledEvent(scheduled_at) ==
    IF scheduled_at = None THEN <<>>
    ELSE <<[type |-> "scheduled", at |-> CHOOSE t \in scheduled_at : TRUE]>>

Appended(i) ==
    CASE lastOp'.op = "fetch_job_one" /\ i \in lastOp'.ret ->
            <<[type |-> "started", at |-> now]>>
      [] lastOp'.op = "finish_job_run" /\ lastOp'.raised = ""
            /\ lastOp'.arg.job_id = i /\ lastOp'.arg.status = "todo" ->
            ScheduledEvent(jobs'[i].scheduled_at)
                \o <<[type |-> "deferred_for_retry", at |-> now]>>
      [] lastOp'.op = "finish_job_run" /\ lastOp'.raised = ""
            /\ lastOp'.arg.job_id = i /\ lastOp'.arg.status # "todo" ->
            <<[type |-> lastOp'.arg.status, at |-> now]>>
      [] OTHER -> <<>>

EventLogAppendOnly ==
    [][/\ \A i \in DOMAIN jobs \cap DOMAIN jobs' :
            events'[i] = events[i] \o Appended(i)
       /\ \A i \in DOMAIN jobs' \ DOMAIN jobs :
            events'[i] = ScheduledEvent(jobs'[i].scheduled_at)
                            \o <<[type |-> "deferred", at |-> now]>>]_vars

\* a started job has just been sent back with a new schedule time: its log
\* is deferred, started, scheduled, deferred_for_retry
AppendedRetryWitness ==
    /\ lastOp.op = "finish_job_run"
    /\ lastOp.raised = ""
    /\ Len(events[lastOp.arg.job_id]) = 4
    /\ [k \in 1..4 |-> events[lastOp.arg.job_id][k].type]
            = <<"deferred", "started", "scheduled", "deferred_for_retry">>

\* C18: fetch_job_one returns only a job that is todo, so a job that a fetch
\* has returned is not returned again until a finish_job_run with target
\* todo has sent it back: two started events of a log have a
\* deferred_for_retry event between them, and a log holds at most
\* attempts + 1 started events.
Starts(i) == {k \in 1..Len(events[i]) : events[i][k].type = "started"}

DispatchedOncePerAttempt ==
    \A i \in DOMAIN jobs :
        /\ Cardinality(Starts(i)) <= jobs[i].attempts + 1
        /\ \A a, b \in Starts(i) :
            a < b => \E k \in (a + 1)..(b - 1) :
                        events[i][k].type = "deferred_for_retry"

NoDoubleDispatch ==
    [][/\ (lastOp'.op = "fetch_job_one" =>
                \A r \in lastOp'.ret : jobs[r].status = "todo")
       /\ DispatchedOncePerAttempt']_vars

\* a job sent back once has just been dispatched for the second time
SecondDispatchWitness ==
    /\ lastOp.op = "fetch_job_one"
    /\ \E r \in Returned :
        /\ Cardinality(Starts(r)) = 2
        /\ jobs[r].attempts = 1

\* C19: a defer_job_one that raises the uniqueness violation, and a
\* finish_job_run of an id that is not in the store, leave the job table,
\* the event logs, the next id and the registered event as they were.
FailedCallsChangeNothing ==
    [][(lastOp'.op \in {"defer_job_one", "finish_job_run"} /\ lastOp'.raised # "") =>
        /\ jobs' = jobs
        /\ events' = events
        /\ job_counter' = job_counter
        /\ notify_event' = notify_event
        /\ notify_channels' = notify_channels]_vars

\* a submission has just been rejected while a subscriber of every queue was
\* registered and its event not set; the next id is still 2
RejectedWhileListeningWitness ==
    /\ lastOp.op = "defer_job_one"
    /\ lastOp.raised = "UniqueViolation"
    /\ notify_event = Some(FALSE)
    /\ AnyQueueChannel \in notify_channels
    /\ job_counter = 2

\* C20: when fetch_job_one without queue filter keeps being called, every
\* fetched job is eventually finished as succeeded or failed and time keeps
\* advancing, every submitted job eventually becomes doing.
EveryJobDispatched ==
    \A id \in 1..MaxJobs :
        (id \in DOMAIN jobs /\ jobs[id].status = "todo")
            ~> (id \in DOMAIN jobs /\ jobs[id].status = "doing")

\* a job that was submitted while an older job held its lock has been
\* dispatched after that job was finished
DispatchedAfterLockHolderWitness ==
    /\ lastOp.op = "fetch_job_one"
    /\ \E r \in Returned : \E h \in DOMAIN jobs :
        /\ h < r
        /\ jobs[h].lock = Some("x")
        /\ jobs[r].lock = Some("x")
        /\ jobs[h].status \in {"succeeded", "failed"}
        /\ events[r][1].at >= events[h][Len(events[h]) - 1].at
        /\ events[h][Len(events[h]) - 1].type = "started"

====
